---- MODULE Spec2Model ----
(***************************************************************************)
(* A model of ai-agent-pipeline.py: the two tool functions                 *)
(* (get_exercise_info, calculate_calories), the input guardrail            *)
(* (fitness_goal_guardrail) and the demo driver that runs three queries    *)
(* through the coordinator agent and renders one outcome per query.        *)
(*                                                                         *)
(* Strings the code inspects (lower(), ==, in) are sequences of            *)
(* one-character strings, so that case folding is computed and not         *)
(* assumed.  Strings the code only passes on are TLA+ strings.  Formatted  *)
(* strings (f"...") are tuples of their parts.                             *)
(*                                                                         *)
(* Floating point: calculate_calories works on doubles.  The model works   *)
(* on exact rationals with fixed denominators (weights and heights are     *)
(* multiples of 0.5, so every intermediate value is a multiple of 1/80000) *)
(* and rounds as Python's round() does, half to even.                      *)
(***************************************************************************)
EXTENDS Integers, Sequences, FiniteSets, TLC

VARIABLES
    user_context,   \* the UserContext built at the start of demo()
    qi,             \* index of the query the for loop is at (NumQueries + 1: loop over)
    pc,             \* the driver's position inside the loop body
    cstate,         \* the coordinator's state inside Runner.run(fitness_agent, ...)
    specialist,     \* the agent the coordinator handed off to, if any
    eval_outcome,   \* what Runner.run(goal_analysis_agent, ...) did for this query
    guardrail_out,  \* the GuardrailFunctionOutput returned by fitness_goal_guardrail
    result,         \* result.final_output of Runner.run(fitness_agent, ...)
    exc,            \* the exception raised out of the try block, if any
    tool_in,        \* arguments of the latest tool call
    tool_out,       \* what the latest tool call returned
    ncalls,         \* tool calls made by the specialist for this query
    out             \* everything printed so far: a sequence of [q, kind, text]

vars == <<user_context, qi, pc, cstate, specialist, eval_outcome, guardrail_out, result,
          exc, tool_in, tool_out, ncalls, out>>

None == [kind |-> "none"]

-----------------------------------------------------------------------------
(* Strings as character sequences, and str.lower()                         *)

Uppers == <<"A","B","C","D","E","F","G","H","I","J","K","L","M",
            "N","O","P","Q","R","S","T","U","V","W","X","Y","Z">>
Lowers == <<"a","b","c","d","e","f","g","h","i","j","k","l","m",
            "n","o","p","q","r","s","t","u","v","w","x","y","z">>

IndexIn(c, alphabet) ==
    IF \E i \in DOMAIN alphabet : alphabet[i] = c
    THEN CHOOSE i \in DOMAIN alphabet : alphabet[i] = c
    ELSE 0

LowerChar(c) == IF IndexIn(c, Uppers) # 0 THEN Lowers[IndexIn(c, Uppers)] ELSE c
UpperChar(c) == IF IndexIn(c, Lowers) # 0 THEN Uppers[IndexIn(c, Lowers)] ELSE c

\* str.lower()
Lower(s) == [i \in DOMAIN s |-> LowerChar(s[i])]

Upper(s) == [i \in DOMAIN s |-> UpperChar(s[i])]
Capitalize(s) == [i \in DOMAIN s |-> IF i = 1 THEN UpperChar(s[i]) ELSE s[i]]

\* Every way of writing s in mixed case.
RECURSIVE CaseVariants(_)
CaseVariants(s) ==
    IF s = <<>> THEN {<<>>}
    ELSE {<<c>> \o t : c \in {Head(s), UpperChar(Head(s))}, t \in CaseVariants(Tail(s))}

\* s followed by n spaces
Padded(s, n) == s \o [i \in 1..n |-> " "]

-----------------------------------------------------------------------------
(* get_exercise_info                                                       *)

s_chest == <<"c","h","e","s","t">>
s_back  == <<"b","a","c","k">>
s_legs  == <<"l","e","g","s">>
s_arms  == <<"a","r","m","s">>
s_core  == <<"c","o","r","e">>
s_abs   == <<"a","b","s">>
s_leg   == <<"l","e","g">>
s_glutes == <<"g","l","u","t","e","s">>

MuscleGroups == {s_chest, s_back, s_legs, s_arms, s_core}

exercise_data(k) ==
    CASE k = s_chest -> <<"Push-ups: 3 sets of 10-15 reps",
                          "Bench Press: 3 sets of 8-12 reps",
                          "Chest Flyes: 3 sets of 12-15 reps",
                          "Incline Push-ups: 3 sets of 10-15 reps">>
      [] k = s_back  -> <<"Pull-ups: 3 sets of 6-10 reps",
                          "Bent-over Rows: 3 sets of 8-12 reps",
                          "Lat Pulldowns: 3 sets of 10-12 reps",
                          "Superman Holds: 3 sets of 30 seconds">>
      [] k = s_legs  -> <<"Squats: 3 sets of 10-15 reps",
                          "Lunges: 3 sets of 10 per leg",
                          "Calf Raises: 3 sets of 15-20 reps",
                          "Glute Bridges: 3 sets of 15 reps">>
      [] k = s_arms  -> <<"Bicep Curls: 3 sets of 10-12 reps",
                          "Tricep Dips: 3 sets of 10-15 reps",
                          "Hammer Curls: 3 sets of 10-12 reps",
                          "Overhead Tricep Extensions: 3 sets of 10-12 reps">>
      [] k = s_core  -> <<"Planks: 3 sets of 30-60 seconds",
                          "Crunches: 3 sets of 15-20 reps",
                          "Russian Twists: 3 sets of 20 total reps",
                          "Mountain Climbers: 3 sets of 20 total reps">>

\* The keys of the exercise_data dict.
exercise_keys == MuscleGroups

\* get_exercise_info without the case folding of line 87.
get_exercise_info_nofold(muscle_group) ==
    IF muscle_group \in exercise_keys
    THEN [kind |-> "json",
          muscle_group |-> muscle_group,
          exercises |-> exercise_data(muscle_group),
          recommendation |-> <<"For ", muscle_group,
               " training, complete exercises with 60-90 seconds rest between sets.">>]
    ELSE [kind |-> "text",
          text |-> <<"Exercise information for ", muscle_group, " is not available.">>]

\* get_exercise_info(muscle_group): a json.dumps of the record (kind "json") or
\* the plain message (kind "text").
get_exercise_info(muscle_group) ==
    LET mg == Lower(muscle_group) IN
    IF mg \in exercise_keys
    THEN [kind |-> "json",
          muscle_group |-> mg,
          exercises |-> exercise_data(mg),
          recommendation |-> <<"For ", mg,
               " training, complete exercises with 60-90 seconds rest between sets.">>]
    ELSE [kind |-> "text",
          text |-> <<"Exercise information for ", mg, " is not available.">>]

\* The muscle groups the exercise tool is tried on: every mixed-case spelling of
\* the five keys and of some words that are not keys, each with up to MaxPad
\* trailing spaces.
MaxPad == 1
ExerciseWords == MuscleGroups \cup {s_abs, s_leg, s_glutes, <<>>}
ExerciseInputs ==
    {Padded(v, n) : v \in UNION {CaseVariants(w) : w \in ExerciseWords}, n \in 0..MaxPad}

-----------------------------------------------------------------------------
(* calculate_calories                                                      *)

s_male   == <<"m","a","l","e">>
s_m      == <<"m">>
s_female == <<"f","e","m","a","l","e">>
s_f      == <<"f">>
s_weight_loss == <<"w","e","i","g","h","t"," ","l","o","s","s">>
s_muscle_gain == <<"m","u","s","c","l","e"," ","g","a","i","n">>
s_weightloss  == <<"w","e","i","g","h","t","l","o","s","s">>
s_lose_weight == <<"l","o","s","e"," ","w","e","i","g","h","t">>
s_maintenance == <<"m","a","i","n","t","e","n","a","n","c","e">>

\* Python's round(n / d) for d > 0: to the nearest integer, a tie to the even one.
\* (\div rounds towards minus infinity and % is non-negative.)
RoundHalfEven(n, d) ==
    LET q == n \div d
        r == n % d
    IN  IF 2 * r < d THEN q
        ELSE IF 2 * r > d THEN q + 1
        ELSE IF q % 2 = 0 THEN q ELSE q + 1

\* int(n / d): truncation instead of rounding.
RoundTrunc(n, d) == IF n >= 0 THEN n \div d ELSE -((-n) \div d)

\* round(x) of line 130-132 and 136, x = n / d.
round(n, d) == RoundHalfEven(n, d)

\* Lines 102-105 with the test gender == 'male' (no lower(), no 'm').
bmr8_exact_male(weight_kg2, height_cm2, age, gender) ==
    IF gender = s_male
    THEN 40 * weight_kg2 + 25 * height_cm2 - 40 * age + 40
    ELSE 40 * weight_kg2 + 25 * height_cm2 - 40 * age - 1288

\* Lines 102-105: 8 * bmr, for weight_kg = weight_kg2 / 2 and height_cm = height_cm2 / 2.
\*   8 * (10 * w + 6.25 * h - 5 * a + 5)   = 40 * w2 + 25 * h2 - 40 * a + 40
\*   8 * (10 * w + 6.25 * h - 5 * a - 161) = 40 * w2 + 25 * h2 - 40 * a - 1288
bmr8(weight_kg2, height_cm2, age, gender) ==
    IF Lower(gender) \in {s_male, s_m}
    THEN 40 * weight_kg2 + 25 * height_cm2 - 40 * age + 40
    ELSE 40 * weight_kg2 + 25 * height_cm2 - 40 * age - 1288

\* Line 108: 800 * tdee = 800 * (bmr * 1.55) = 155 * (8 * bmr)
tdee800(b8) == 155 * b8

\* Lines 111-116 with the surplus and the deficit exchanged.
calorie_target800_swapped(goal, t800) ==
    IF Lower(goal) = s_weight_loss THEN t800 + 800 * 300
    ELSE IF Lower(goal) = s_muscle_gain THEN t800 - 800 * 500
    ELSE t800

\* Lines 111-116: 800 * calorie_target
calorie_target800(goal, t800) ==
    IF Lower(goal) = s_weight_loss THEN t800 - 800 * 500
    ELSE IF Lower(goal) = s_muscle_gain THEN t800 + 800 * 300
    ELSE t800

\* Lines 119-124: the percentages (protein_pct, fat_pct, carb_pct), times 100.
macro_pct(goal) ==
    IF Lower(goal) = s_weight_loss THEN [protein |-> 40, fat |-> 30, carbs |-> 30]
    ELSE IF Lower(goal) = s_muscle_gain THEN [protein |-> 30, fat |-> 25, carbs |-> 45]
    ELSE [protein |-> 30, fat |-> 30, carbs |-> 40]

\* Lines 130-132 with the grams truncated instead of rounded.
macro_grams_trunc(c800, pct) ==
    [protein |-> RoundTrunc(c800 * pct.protein, 80000 * 4),
     fat     |-> RoundTrunc(c800 * pct.fat, 80000 * 9),
     carbs   |-> RoundTrunc(c800 * pct.carbs, 80000 * 4)]

\* Lines 126-132: protein_cal = calorie_target * protein_pct (times 80000 here),
\* protein_grams = round(protein_cal / 4), fat_grams = round(fat_cal / 9), ...
macro_grams(c800, pct) ==
    [protein |-> round(c800 * pct.protein, 80000 * 4),
     fat     |-> round(c800 * pct.fat, 80000 * 9),
     carbs   |-> round(c800 * pct.carbs, 80000 * 4)]

\* calculate_calories(goal, weight_kg, height_cm, age, gender), the dict that is
\* json.dumps-ed at line 143.
calculate_calories(goal, weight_kg2, height_cm2, age, gender) ==
    LET bmr == bmr8(weight_kg2, height_cm2, age, gender)
        tdee == tdee800(bmr)
        calorie_target == calorie_target800(goal, tdee)
    IN  [kind |-> "json",
         goal |-> goal,
         daily_calories |-> round(calorie_target, 800),
         macros |-> macro_grams(calorie_target, macro_pct(goal))]

-----------------------------------------------------------------------------
(* The tools on their own: an input is drawn, the tool is applied to it.   *)

\* Steps of 0.5 above 70 kg and above 170 cm that the calculator is tried on.
MaxStep == 4
\* weight_kg * 2: 20 kg, 70 kg .. 70 + MaxStep / 2 kg, 80 kg
WeightsKg2 == {40} \cup {140 + k : k \in 0..MaxStep} \cup {160}
\* height_cm * 2: 100 cm, 170 cm .. 170 + MaxStep / 2 cm, 175 cm
HeightsCm2 == {200} \cup {340 + k : k \in 0..MaxStep} \cup {350}
Ages == {28, 30, 95}
CaseStyles(s) == {s, Upper(s), Capitalize(s)}
Goals == CaseStyles(s_weight_loss) \cup CaseStyles(s_muscle_gain)
            \cup {s_weightloss, s_lose_weight, s_maintenance, Padded(s_weight_loss, 1), <<>>}
Genders == CaseStyles(s_male) \cup CaseStyles(s_m) \cup CaseStyles(s_female)
            \cup {s_f, Padded(s_male, 1), <<>>}

CalorieInputs ==
    {[tool |-> "calculate_calories", goal |-> g, weight_kg2 |-> w, height_cm2 |-> h,
      age |-> a, gender |-> s] :
        g \in Goals, w \in WeightsKg2, h \in HeightsCm2, a \in Ages, s \in Genders}

\* The tool call itself: the function named by the arguments, applied to them.
call_tool(args) ==
    IF args.tool = "get_exercise_info"
    THEN get_exercise_info(args.muscle_group)
    ELSE calculate_calories(args.goal, args.weight_kg2, args.height_cm2, args.age, args.gender)

-----------------------------------------------------------------------------
(* demo(): the context, the queries                                        *)

\* Lines 217-227.
DemoUserContext ==
    [user_id |-> "user123",
     fitness_level |-> "beginner",
     fitness_goal |-> "I want to lose 20 pounds in 2 weeks",
     dietary_preference |-> "no restrictions",
     available_equipment |-> <<"dumbbells", "resistance bands">>,
     weight_kg2 |-> 160,
     height_cm2 |-> 350,
     age |-> 28,
     gender |-> s_male]

\* Lines 229-233.
queries ==
    <<"I want to start working out to lose weight. What exercises should I do?",
      "How should I eat to build muscle and support my training?",
      "I want to lose 20 pounds in 2 weeks">>

NumQueries == Len(queries)

-----------------------------------------------------------------------------
(* The guardrail                                                           *)

\* What Runner.run(goal_analysis_agent, analysis_prompt) followed by
\* result.final_output_as(GoalAnalysis) can do (lines 159-160): produce a
\* GoalAnalysis, or raise in either call.  The analysis is the model backend's.
GoalAnalyses ==
    {[is_realistic |-> TRUE,  reasoning |-> "The goal is safe and achievable."],
     [is_realistic |-> FALSE, reasoning |-> "Losing 10 pounds per week is unsafe."]}
EvalOutcomes ==
    {[kind |-> "ok", final_output |-> a] : a \in GoalAnalyses}
    \cup {[kind |-> "run_raises", msg |-> "Connection error."],
          [kind |-> "convert_raises", msg |-> "Final output is not of type GoalAnalysis"]}

\* A guardrail whose except clause fails closed.
fitness_goal_guardrail_failclosed(ctx, agent, input_data, o) ==
    IF o.kind = "ok"
    THEN [output_info |-> o.final_output,
          tripwire_triggered |-> ~ o.final_output.is_realistic]
    ELSE [output_info |-> [is_realistic |-> FALSE,
                           reasoning |-> <<"Error analyzing goal: ", o.msg>>],
          tripwire_triggered |-> TRUE]

\* A guardrail that trips on the realistic goals (line 163 without its "not").
fitness_goal_guardrail_inverted(ctx, agent, input_data, o) ==
    IF o.kind = "ok"
    THEN [output_info |-> o.final_output,
          tripwire_triggered |-> o.final_output.is_realistic]
    ELSE [output_info |-> [is_realistic |-> TRUE,
                           reasoning |-> <<"Error analyzing goal: ", o.msg>>],
          tripwire_triggered |-> FALSE]

\* fitness_goal_guardrail(ctx, agent, input_data), lines 155-169; o is what the
\* two calls inside the try block did.  The function returns in every case.
fitness_goal_guardrail(ctx, agent, input_data, o) ==
    IF o.kind = "ok"
    THEN [output_info |-> o.final_output,
          tripwire_triggered |-> ~ o.final_output.is_realistic]
    ELSE [output_info |-> [is_realistic |-> TRUE,
                           reasoning |-> <<"Error analyzing goal: ", o.msg>>],
          tripwire_triggered |-> FALSE]

\* A guardrail that records the query in the context it is handed.
guardrail_context_write(ctx, input_data) == [ctx EXCEPT !.fitness_goal = input_data]

\* What fitness_goal_guardrail does to the context object it is handed
\* (lines 155-169): it reads input_data only and assigns to nothing in ctx.
guardrail_context_effect(ctx, input_data) == ctx

\* The exception the run raises when the tripwire is set.  It carries the
\* guardrail function's return value, either wrapped in a guardrail result
\* (attribute guardrail_result, field output) or as attribute guardrail_output.
TripwireExceptions(g) ==
    {[type |-> "InputGuardrailTripwireTriggered",
      guardrail_result |-> [guardrail |-> "fitness_goal_guardrail", output |-> g]],
     [type |-> "InputGuardrailTripwireTriggered",
      guardrail_output |-> g]}

\* The other exceptions a run can end with: the backend failing, an output that
\* does not fit the schema, a tool that fails.
RunErrors ==
    {[type |-> "APIConnectionError", msg |-> "Connection error."],
     [type |-> "ModelBehaviorError", msg |-> "Invalid JSON for output type"],
     [type |-> "ToolError", msg |-> "Error running tool"]}

-----------------------------------------------------------------------------
(* The coordinator run and its rendering                                   *)

\* Tool calls one specialist run may make.
MaxToolCalls == 2

\* The arguments a specialist may pass to its tool (line 183: the workout agent
\* has get_exercise_info, line 197: the nutrition agent has calculate_calories).
\* The personal figures are those of the context.
ToolArgs(agent, ctx) ==
    IF agent = "Workout Specialist"
    THEN {[tool |-> "get_exercise_info", muscle_group |-> m] :
            m \in {s_chest, Capitalize(s_legs), s_abs}}
    ELSE {[tool |-> "calculate_calories", goal |-> g, weight_kg2 |-> ctx.weight_kg2,
           height_cm2 |-> ctx.height_cm2, age |-> ctx.age, gender |-> ctx.gender] :
            g \in {s_weight_loss, Capitalize(s_muscle_gain)}}

\* The final output of a run: the output_type of the agent that answered
\* (line 184: WorkoutPlan, line 198: MealPlan, the coordinator: text), written
\* by the model backend from what the tool returned.
FinalOutput(agent, tout) ==
    IF agent = "Workout Specialist" THEN [type |-> "WorkoutPlan", from_tool |-> tout]
    ELSE IF agent = "Nutrition Specialist" THEN [type |-> "MealPlan", from_tool |-> tout]
    ELSE [type |-> "str", from_tool |-> tout]

\* Lines 243-248 with the elif of line 245 written as if.
success_labels_fallthrough(final_output) ==
    (IF final_output.type = "WorkoutPlan" THEN <<"WORKOUT SPECIALIST">> ELSE <<>>)
    \o (IF final_output.type = "MealPlan" THEN <<"NUTRITION SPECIALIST">>
        ELSE <<"GENERAL FITNESS COACH">>)

\* Lines 243-248: the labels printed for a final output, in order.
success_labels(final_output) ==
    IF final_output.type = "WorkoutPlan" THEN <<"WORKOUT SPECIALIST">>
    ELSE IF final_output.type = "MealPlan" THEN <<"NUTRITION SPECIALIST">>
    ELSE <<"GENERAL FITNESS COACH">>

\* Lines 253-260 without the except Exception clause.
except_clause_narrow(e) ==
    IF e.type = "InputGuardrailTripwireTriggered" THEN "guardrail" ELSE "uncaught"

\* Lines 253 and 259: the except clause that takes exception e.  Every
\* exception of the model is an Exception.
except_clause(e) ==
    IF e.type = "InputGuardrailTripwireTriggered" THEN "guardrail" ELSE "error"

\* hasattr(obj, name) for the objects of the model, which are records.
hasattr(obj, name) == name \in DOMAIN obj

\* Lines 255-258: the line printed after the guardrail label.
guardrail_reason_line(e) ==
    IF hasattr(e, "guardrail_output") /\ hasattr(e.guardrail_output, "reasoning")
    THEN <<"Reason: ", e.guardrail_output.reasoning>>
    ELSE <<"An unrealistic or unsafe fitness goal was detected.">>

Line(kind, text) == [q |-> qi, kind |-> kind, text |-> text]

\* Lines 236-238, and the call of Runner.run at line 240 starting.
PrintHeader ==
    /\ pc = "header"
    /\ out' = out \o <<Line("query", <<"QUERY: ", queries[qi]>>)>>
    /\ pc' = "run"
    /\ cstate' = "Start"
    /\ specialist' = "none"
    /\ eval_outcome' = None
    /\ guardrail_out' = None
    /\ tool_in' = None
    /\ tool_out' = None
    /\ ncalls' = 0
    /\ UNCHANGED <<user_context, qi, result, exc>>

\* The run evaluates the input guardrail of line 211 on the query.
GuardrailRun ==
    /\ pc = "run" /\ cstate = "Start"
    /\ \E o \in EvalOutcomes :
        /\ eval_outcome' = o
        /\ guardrail_out' =
               fitness_goal_guardrail(user_context, "Robust Fitness Coach", queries[qi], o)
    /\ user_context' = guardrail_context_effect(user_context, queries[qi])
    /\ cstate' = "GuardrailCheck"
    /\ UNCHANGED <<qi, pc, specialist, result, exc, tool_in, tool_out, ncalls, out>>

\* The tripwire is set: the run ends with InputGuardrailTripwireTriggered.
Tripwire ==
    /\ pc = "run" /\ cstate = "GuardrailCheck"
    /\ guardrail_out.tripwire_triggered
    /\ \E e \in TripwireExceptions(guardrail_out) : exc' = e
    /\ cstate' = "Rejected"
    /\ pc' = "except"
    /\ UNCHANGED <<user_context, qi, specialist, eval_outcome, guardrail_out, result,
                   tool_in, tool_out, ncalls, out>>

\* The coordinator hands off to one of the agents of line 210.
Handoff ==
    /\ pc = "run" /\ cstate = "GuardrailCheck"
    /\ ~ guardrail_out.tripwire_triggered
    /\ \E a \in {"Workout Specialist", "Nutrition Specialist"} : specialist' = a
    /\ cstate' = "HandedOff"
    /\ UNCHANGED <<user_context, qi, pc, eval_outcome, guardrail_out, result, exc,
                   tool_in, tool_out, ncalls, out>>

\* The coordinator answers itself.
DirectAnswer ==
    /\ pc = "run" /\ cstate = "GuardrailCheck"
    /\ ~ guardrail_out.tripwire_triggered
    /\ cstate' = "DirectAnswer"
    /\ UNCHANGED <<user_context, qi, pc, specialist, eval_outcome, guardrail_out, result,
                   exc, tool_in, tool_out, ncalls, out>>

\* The specialist calls its tool.
ToolCall ==
    /\ pc = "run" /\ cstate = "HandedOff"
    /\ ncalls < MaxToolCalls
    /\ \E args \in ToolArgs(specialist, user_context) :
        /\ tool_in' = args
        /\ tool_out' = call_tool(args)
    /\ ncalls' = ncalls + 1
    /\ UNCHANGED <<user_context, qi, pc, cstate, specialist, eval_outcome, guardrail_out,
                   result, exc, out>>

\* Runner.run returns: line 240 assigns result.
RunReturns ==
    /\ pc = "run" /\ cstate \in {"HandedOff", "DirectAnswer"}
    /\ result' = FinalOutput(specialist, tool_out)
    /\ cstate' = "Done"
    /\ pc' = "label"
    /\ UNCHANGED <<user_context, qi, specialist, eval_outcome, guardrail_out, exc,
                   tool_in, tool_out, ncalls, out>>

\* Runner.run raises something else than the tripwire exception.
RunFails ==
    /\ pc = "run"
    /\ \/ cstate \in {"Start", "HandedOff", "DirectAnswer"}
       \/ cstate = "GuardrailCheck" /\ ~ guardrail_out.tripwire_triggered
    /\ \E e \in RunErrors : exc' = e
    /\ cstate' = "Failed"
    /\ pc' = "except"
    /\ UNCHANGED <<user_context, qi, specialist, eval_outcome, guardrail_out, result,
                   tool_in, tool_out, ncalls, out>>

\* Lines 243-248.
RenderLabel ==
    /\ pc = "label"
    /\ out' = out \o [i \in 1..Len(success_labels(result)) |->
                        Line("label", <<success_labels(result)[i]>>)]
    /\ pc' = "response"
    /\ UNCHANGED <<user_context, qi, cstate, specialist, eval_outcome, guardrail_out,
                   result, exc, tool_in, tool_out, ncalls>>

\* Lines 250-251.
RenderResponse ==
    /\ pc = "response"
    /\ out' = out \o <<Line("response_header", <<"RESPONSE:">>),
                       Line("response", <<result>>)>>
    /\ pc' = "next"
    /\ UNCHANGED <<user_context, qi, cstate, specialist, eval_outcome, guardrail_out,
                   result, exc, tool_in, tool_out, ncalls>>

\* Lines 253-258.
ExceptGuardrail ==
    /\ pc = "except"
    /\ except_clause(exc) = "guardrail"
    /\ out' = out \o <<Line("label", <<"GUARDRAIL TRIGGERED">>),
                       Line("reason", guardrail_reason_line(exc))>>
    /\ pc' = "next"
    /\ UNCHANGED <<user_context, qi, cstate, specialist, eval_outcome, guardrail_out,
                   result, exc, tool_in, tool_out, ncalls>>

\* Lines 259-260; an exception no clause takes leaves demo().
ExceptOther ==
    /\ pc = "except"
    /\ except_clause(exc) # "guardrail"
    /\ IF except_clause(exc) = "error"
       THEN /\ out' = out \o <<Line("error", <<"[ERROR]: ", exc.msg>>)>>
            /\ pc' = "next"
       ELSE /\ out' = out
            /\ pc' = "aborted"
    /\ UNCHANGED <<user_context, qi, cstate, specialist, eval_outcome, guardrail_out,
                   result, exc, tool_in, tool_out, ncalls>>

\* Line 235: the for loop takes the next query, or ends.
NextQuery ==
    /\ pc = "next"
    /\ qi' = qi + 1
    /\ pc' = IF qi < NumQueries THEN "header" ELSE "done"
    /\ exc' = None
    /\ UNCHANGED <<user_context, cstate, specialist, eval_outcome, guardrail_out,
                   result, tool_in, tool_out, ncalls, out>>

\* demo() before the loop.
Init ==
    /\ user_context = DemoUserContext
    /\ qi = 1
    /\ pc = "header"
    /\ cstate = "Idle"
    /\ specialist = "none"
    /\ eval_outcome = None
    /\ guardrail_out = None
    /\ result = None
    /\ exc = None
    /\ tool_in = None
    /\ tool_out = None
    /\ ncalls = 0
    /\ out = <<>>

Next ==
    \/ PrintHeader
    \/ GuardrailRun
    \/ Tripwire
    \/ Handoff
    \/ DirectAnswer
    \/ ToolCall
    \/ RunReturns
    \/ RunFails
    \/ RenderLabel
    \/ RenderResponse
    \/ ExceptGuardrail
    \/ ExceptOther
    \/ NextQuery

Spec == Init /\ [][Next]_vars

\* Every awaited call returns or raises, and asyncio.run drives demo() on.
FairSpec == Spec /\ WF_vars(Next)

-----------------------------------------------------------------------------
(* The tools on their own                                                  *)

ToolIdle ==
    /\ user_context = DemoUserContext
    /\ qi = 1
    /\ pc = "tool"
    /\ cstate = "Idle"
    /\ specialist = "none"
    /\ eval_outcome = None
    /\ guardrail_out = None
    /\ result = None
    /\ exc = None
    /\ ncalls = 0
    /\ out = <<>>

\* The tool is called with the arguments drawn.
CallTool ==
    /\ pc = "tool"
    /\ tool_out = None
    /\ tool_out' = call_tool(tool_in)
    /\ UNCHANGED <<user_context, qi, pc, cstate, specialist, eval_outcome, guardrail_out,
                   result, exc, tool_in, ncalls, out>>

ExerciseInit ==
    /\ ToolIdle
    /\ tool_in \in {[tool |-> "get_exercise_info", muscle_group |-> m] : m \in ExerciseInputs}
    /\ tool_out = None

ExerciseSpec == ExerciseInit /\ [][CallTool]_vars

CaloriesInit ==
    /\ ToolIdle
    /\ tool_in \in CalorieInputs
    /\ tool_out = None

CaloriesSpec == CaloriesInit /\ [][CallTool]_vars

-----------------------------------------------------------------------------
(* Properties of the demo run                                              *)

OutcomeLabels == {"WORKOUT SPECIALIST", "NUTRITION SPECIALIST",
                  "GENERAL FITNESS COACH", "GUARDRAIL TRIGGERED"}

\* The positions in the output of the lines of kind k printed for query q.
LinesOf(q, k) == {i \in DOMAIN out : out[i].q = q /\ out[i].kind = k}

\* Query q has printed label l.
Labelled(q, l) == \E i \in LinesOf(q, "label") : out[i].text = <<l>>

\* An outcome (a label or an error message) has been printed for query q.
Rendered(q) == LinesOf(q, "label") \cup LinesOf(q, "error") # {}

GuardrailReturned == "tripwire_triggered" \in DOMAIN guardrail_out

EvaluationRaised == eval_outcome.kind \in {"run_raises", "convert_raises"}

\* C1: for every query at most one of the four outcome labels (WORKOUT
\* SPECIALIST, NUTRITION SPECIALIST, GENERAL FITNESS COACH, GUARDRAIL
\* TRIGGERED) has been printed, in every reachable state; and a query the loop
\* has left has printed exactly one outcome line (one label or one error).
C1_AtMostOneOutcome ==
    /\ \A q \in 1..NumQueries :
         Cardinality({i \in LinesOf(q, "label") : out[i].text[1] \in OutcomeLabels}) <= 1
    /\ \A q \in 1..NumQueries :
         q < qi => Cardinality(LinesOf(q, "label") \cup LinesOf(q, "error")) = 1

\* All three queries done, answered by the workout specialist, by the nutrition
\* specialist and by a rejection.
C1_Witness ==
    /\ pc = "done"
    /\ Labelled(1, "WORKOUT SPECIALIST")
    /\ Labelled(2, "NUTRITION SPECIALIST")
    /\ Labelled(3, "GUARDRAIL TRIGGERED")

\* C2: whenever the evaluation inside the guardrail raised (Runner.run on the
\* goal analyzer, or the conversion of its output), the guardrail has returned
\* an output with is_realistic = TRUE, a reasoning made of the error's text and
\* tripwire_triggered = FALSE, and the query is not rejected: no tripwire
\* exception is raised and no GUARDRAIL TRIGGERED label is printed for it.
C2_GuardrailFailsOpen ==
    (GuardrailReturned /\ EvaluationRaised) =>
        /\ guardrail_out.tripwire_triggered = FALSE
        /\ guardrail_out.output_info.is_realistic = TRUE
        /\ guardrail_out.output_info.reasoning =
               <<"Error analyzing goal: ", eval_outcome.msg>>
        /\ cstate # "Rejected"
        /\ "type" \in DOMAIN exc => exc.type # "InputGuardrailTripwireTriggered"
        /\ ~ Labelled(qi, "GUARDRAIL TRIGGERED")

\* The conversion of the analyzer's output raised and the query was answered.
C2_Witness ==
    /\ GuardrailReturned
    /\ eval_outcome.kind = "convert_raises"
    /\ pc = "next"
    /\ Labelled(qi, "GENERAL FITNESS COACH")

\* C3: the tripwire is set exactly when the goal analysis completed with
\* is_realistic = FALSE; while it is set the coordinator is in GuardrailCheck or
\* in Rejected and the query has no specialist label, no coach label and no
\* response printed; and the coordinator is in HandedOff, DirectAnswer or Done
\* only when the guardrail returned with the tripwire not set.
C3_GuardrailGates ==
    /\ GuardrailReturned =>
         (guardrail_out.tripwire_triggered <=>
            (eval_outcome.kind = "ok" /\ ~ eval_outcome.final_output.is_realistic))
    /\ (GuardrailReturned /\ guardrail_out.tripwire_triggered) =>
         /\ cstate \in {"GuardrailCheck", "Rejected"}
         /\ \A l \in OutcomeLabels \ {"GUARDRAIL TRIGGERED"} : ~ Labelled(qi, l)
         /\ LinesOf(qi, "response") = {}
         /\ LinesOf(qi, "error") = {}
    /\ cstate \in {"HandedOff", "DirectAnswer", "Done"} =>
         (GuardrailReturned /\ ~ guardrail_out.tripwire_triggered)

\* An unrealistic goal was rejected and the rejection rendered.
C3_Witness ==
    /\ cstate = "Rejected"
    /\ pc = "next"
    /\ eval_outcome.kind = "ok"
    /\ ~ eval_outcome.final_output.is_realistic
    /\ Labelled(qi, "GUARDRAIL TRIGGERED")

\* The output is in the order of the query list.
InListOrder == \A i, j \in DOMAIN out : i < j => out[i].q <= out[j].q

\* C4: whatever a query ends with (an answer, a rejection, an error), the loop
\* goes on: every query of the list is eventually rendered (a label or an error
\* message is printed for it) and the loop ends; the output is always in list
\* order and a query is started only when every earlier one is rendered.
C4_EveryQueryRendered ==
    /\ <>(pc = "done" /\ \A q \in 1..NumQueries : Rendered(q))
    /\ [](InListOrder /\ \A q \in 1..NumQueries : q < qi => Rendered(q))

\* The first query failed, the second was rejected, the third was answered.
C4_Witness ==
    /\ pc = "done"
    /\ LinesOf(1, "error") # {}
    /\ Labelled(2, "GUARDRAIL TRIGGERED")
    /\ Labelled(3, "WORKOUT SPECIALIST")

\* C5: when a query has ended with the tripwire set, the output for that query
\* has, after the GUARDRAIL TRIGGERED label, a line that contains the reasoning
\* of the GoalAnalysis that set the tripwire, and no error line.
C5_RejectionRendersReasoning ==
    (pc = "next" /\ cstate = "Rejected") =>
        /\ Labelled(qi, "GUARDRAIL TRIGGERED")
        /\ LinesOf(qi, "error") = {}
        /\ \E i \in LinesOf(qi, "reason") :
             \E k \in DOMAIN out[i].text :
                out[i].text[k] = guardrail_out.output_info.reasoning

\* C6: the UserContext a query is processed with is the one built at the start
\* of demo(), whatever the earlier queries did; the calorie tool is called
\* with the figures of that context.
C6_ContextNeverMutated ==
    /\ user_context = DemoUserContext
    /\ ("tool" \in DOMAIN tool_in /\ pc # "tool") =>
          (tool_in.tool = "calculate_calories" =>
             /\ tool_in.weight_kg2 = DemoUserContext.weight_kg2
             /\ tool_in.height_cm2 = DemoUserContext.height_cm2
             /\ tool_in.age = DemoUserContext.age
             /\ tool_in.gender = DemoUserContext.gender)

\* The third query is past its guardrail after two queries that went through
\* the guardrail and a specialist.
C6_Witness ==
    /\ qi = 3
    /\ cstate = "HandedOff"
    /\ Labelled(1, "WORKOUT SPECIALIST")
    /\ Labelled(2, "NUTRITION SPECIALIST")
    /\ "tool" \in DOMAIN tool_in

-----------------------------------------------------------------------------
(* Properties of the tools                                                 *)

\* s is k (a lower-case word) written in some mix of cases.
EqualsIgnoringCase(s, k) ==
    /\ Len(s) = Len(k)
    /\ \A i \in DOMAIN k : s[i] = k[i] \/ s[i] = UpperChar(k[i])

Abs(x) == IF x < 0 THEN -x ELSE x

ToolReturned == tool_out.kind # "none"

\* C7: called with a muscle group that is chest, back, legs, arms or core in
\* any mix of cases, get_exercise_info returns the structured record with the
\* lower-case muscle_group, the non-empty exercise list of that group and a
\* recommendation; called with anything else it returns the plain "not
\* available" message and not the record.
C7_ExerciseLookup ==
    ToolReturned =>
        IF \E k \in MuscleGroups : EqualsIgnoringCase(tool_in.muscle_group, k)
        THEN LET k == CHOOSE k \in MuscleGroups :
                        EqualsIgnoringCase(tool_in.muscle_group, k)
             IN  /\ tool_out.kind = "json"
                 /\ tool_out.muscle_group = k
                 /\ tool_out.exercises = exercise_data(k)
                 /\ Len(tool_out.exercises) > 0
                 /\ tool_out.recommendation = <<"For ", k,
                      " training, complete exercises with 60-90 seconds rest between sets.">>
        ELSE /\ tool_out.kind = "text"
             /\ Len(tool_out.text) = 3
             /\ tool_out.text[1] = "Exercise information for "
             /\ tool_out.text[3] = " is not available."
             /\ "exercises" \notin DOMAIN tool_out

\* "LEGS" was looked up and the record for legs came back.
C7_Witness ==
    /\ ToolReturned
    /\ tool_in.muscle_group = <<"L", "E", "G", "S">>
    /\ tool_out.kind = "json"
    /\ tool_out.muscle_group = s_legs

\* The claim's formula for the calorie target, times 800:
\* 800 * (1.55 * BMR + adj), BMR = 10 * w + 6.25 * h - 5 * a + 5 for "male" and
\* "m" in any mix of cases and 10 * w + 6.25 * h - 5 * a - 161 for every other
\* gender, adj = -500 for "weight loss", +300 for "muscle gain" in any mix of
\* cases and 0 for every other goal.
ClaimedTarget800(in) ==
    LET male == EqualsIgnoringCase(in.gender, s_male) \/ EqualsIgnoringCase(in.gender, s_m)
        bmr  == 40 * in.weight_kg2 + 25 * in.height_cm2 - 40 * in.age
                    + (IF male THEN 40 ELSE -1288)
        adj  == IF EqualsIgnoringCase(in.goal, s_weight_loss) THEN -500
                ELSE IF EqualsIgnoringCase(in.goal, s_muscle_gain) THEN 300
                ELSE 0
    IN  155 * bmr + 800 * adj

\* The claim's percentage shares (protein, fat, carbs) of the calorie target.
ClaimedShares(in) ==
    IF EqualsIgnoringCase(in.goal, s_weight_loss) THEN [protein |-> 40, fat |-> 30, carbs |-> 30]
    ELSE IF EqualsIgnoringCase(in.goal, s_muscle_gain) THEN [protein |-> 30, fat |-> 25, carbs |-> 45]
    ELSE [protein |-> 30, fat |-> 30, carbs |-> 40]

\* goal = "weight loss", weight = 80, height = 175, age = 28, gender = "male"
WorkedExample ==
    [tool |-> "calculate_calories", goal |-> s_weight_loss, weight_kg2 |-> 160,
     height_cm2 |-> 350, age |-> 28, gender |-> s_male]

DailyCaloriesAsClaimed ==
    ToolReturned => tool_out.daily_calories = RoundHalfEven(ClaimedTarget800(tool_in), 800)

\* C8 as stated: daily_calories is round(1.55 * BMR + adj) for every input, and
\* the worked example yields daily_calories = 2311.
C8_DailyCalories_2311 ==
    /\ DailyCaloriesAsClaimed
    /\ (ToolReturned /\ tool_in = WorkedExample) => tool_out.daily_calories = 2311

\* C8: daily_calories is round(1.55 * BMR + adj) for every input, with the
\* branches of BMR and adj as the claim gives them, and the worked example
\* (weight loss, 80 kg, 175 cm, 28, male) yields daily_calories = 2226 with the
\* macros of the 40/30/30 split of 2226.0625: 223 g protein, 74 g fat, 167 g carbs.
C8_DailyCalories ==
    /\ DailyCaloriesAsClaimed
    /\ (ToolReturned /\ tool_in = WorkedExample) =>
         /\ tool_out.daily_calories = 2226
         /\ tool_out.macros = [protein |-> 223, fat |-> 74, carbs |-> 167]
         /\ tool_out.goal = s_weight_loss

\* The calculator has returned for the worked example.
C8_Witness ==
    /\ ToolReturned
    /\ tool_in = WorkedExample
    /\ tool_out.daily_calories = 2226

\* C9 as stated: for every input the three macro values are non-negative
\* integers.
C9_MacrosNonNegative ==
    ToolReturned =>
        \A m \in {"protein", "fat", "carbs"} : tool_out.macros[m] \in Nat

\* C9: the three macro values are integers for every input, and non-negative
\* for every input whose calorie target 1.55 * BMR + adj is non-negative.
C9_MacrosNonNegativeForTarget ==
    ToolReturned =>
        /\ \A m \in {"protein", "fat", "carbs"} : tool_out.macros[m] \in Int
        /\ ClaimedTarget800(tool_in) >= 0 =>
             \A m \in {"protein", "fat", "carbs"} : tool_out.macros[m] \in Nat

\* A calorie target that is non-negative and below 300 kcal, with its macros.
C9_Witness ==
    /\ ToolReturned
    /\ ClaimedTarget800(tool_in) >= 0
    /\ ClaimedTarget800(tool_in) < 800 * 300
    /\ tool_out.macros.fat > 0

\* 80000 times the distance in kcal between the calorie equivalent of macro m
\* (kcal kcal/g) and its share of the calorie target.
MacroError80000(m, kcal) ==
    Abs(80000 * kcal * tool_out.macros[m] - ClaimedTarget800(tool_in) * ClaimedShares(tool_in)[m])

\* C10 as stated: each macro's calorie equivalent (protein * 4, carbs * 4,
\* fat * 9) is within 3 kcal of its share of the calorie target.
C10_MacrosWithin3 ==
    ToolReturned =>
        /\ MacroError80000("protein", 4) <= 3 * 80000
        /\ MacroError80000("carbs", 4) <= 3 * 80000
        /\ MacroError80000("fat", 9) <= 3 * 80000

\* C10: the calorie equivalent of protein and of carbs is within 3 kcal of its
\* share of the calorie target, that of fat within 5 kcal (a gram of fat is
\* 9 kcal, so rounding to the nearest gram moves it by up to 4.5 kcal).
C10_MacrosWithinTolerance ==
    ToolReturned =>
        /\ MacroError80000("protein", 4) <= 3 * 80000
        /\ MacroError80000("carbs", 4) <= 3 * 80000
        /\ MacroError80000("fat", 9) <= 5 * 80000

\* The fat grams are more than 3 kcal away from the fat share.
C10_Witness ==
    /\ ToolReturned
    /\ MacroError80000("fat", 9) > 3 * 80000
    /\ MacroError80000("protein", 4) <= 3 * 80000

====
